---- MODULE Spec2Model ----
(***************************************************************************)
(* Model of Advanced_travel_agent.py: the Streamlit script (one script run *)
(* per user interaction), the SerperDevTool search client with its cache,  *)
(* the chunked generation loop and the calendar extractor.                 *)
(*                                                                         *)
(* Text is a sequence of one-token strings.  A Python value that may be    *)
(* None is a record [none, text].                                          *)
(***************************************************************************)
EXTENDS FiniteSets, Integers, Sequences, TLC

VARIABLES
    itinerary,       \* st.session_state.itinerary
    full_response,   \* st.session_state.full_response
    buttonShown,     \* the Generate button is on the page left by the last run
    or_key,          \* inputs of the current script run
    serp_key,
    destination,
    num_days,
    clicked,
    cache,           \* serp_tool.cache
    query,           \* SerperDevTool.search: arguments and locals
    retries,
    attempt,
    ret,             \* value returned by search
    posts,           \* requests.post calls made by the current search call
    search_results,  \* locals of the generate handler
    i,
    start_day,
    end_day,
    full_itinerary,
    chunk_response,
    open,            \* chunk indices whose model stream is started and not ended
    recv,            \* fragments the model has yielded for the current chunk
    requests,        \* requests issued to the model in this run, in order
    sentTexts,       \* per drained chunk, the text of the fragments it yielded
    msg,             \* message shown by the run: "none", "warning", "error"
    displayArg,      \* argument of display_full_itinerary in the last run
    icsArg,          \* plan_text argument of generate_ics_content in the last run
    prevSearch,      \* the search of the previous generate request of the session
    lastGood,        \* the chunk texts of the last generation that was stored
    plan_text,       \* generate_ics_content: arguments and result
    start_date,
    ics,
    pc

vars == << itinerary, full_response, buttonShown, or_key, serp_key, destination,
           num_days, clicked, cache, query, retries, attempt, ret, posts,
           search_results, i, start_day, end_day, full_itinerary, chunk_response,
           open, recv, requests, sentTexts, msg, displayArg, icsArg, prevSearch,
           lastGood, plan_text, start_date, ics, pc >>

sessionVars == << itinerary, full_response >>
inputVars == << or_key, serp_key, destination, num_days, clicked >>
searchVars == << query, retries, attempt, ret, posts >>
loopVars == << search_results, i, start_day, end_day, full_itinerary, chunk_response >>
modelVars == << open, recv, requests, sentTexts >>
uiVars == << msg, displayArg, icsArg >>
icsVars == << plan_text, start_date, ics >>

-----------------------------------------------------------------------------
(* Bounds of the model *)

MaxFrags == 2       \* fragments one model stream yields at most
MaxDaysModel == 4   \* the longest trip a session of Spec asks for
MaxRetries == 3     \* the largest retries argument SpecTool passes
MaxItems == 1       \* organic results in one provider response
MaxSegs == 4        \* segments of the plan text SpecIcs extracts from

(* Program constants *)

MinDays == 1
MaxDays == 14
ChunkSize == 3
DefaultRetries == 2
DateMaxOrdinal == 3652059   \* date.max, 9999-12-31
DateMinOrdinal == 1         \* date.min, 0001-01-01

-----------------------------------------------------------------------------
(* Values *)

None == [none |-> TRUE, text |-> << >>]
Str(t) == [none |-> FALSE, text |-> t]

\* Python truthiness of an Optional[str]
Truthy(v) == ~v.none /\ v.text # << >>

IsWs(c) == c \in {" ", "\n"}

RECURSIVE LStrip(_)
LStrip(s) == IF s # << >> /\ IsWs(Head(s)) THEN LStrip(Tail(s)) ELSE s

RECURSIVE RStrip(_)
RStrip(s) ==
    IF s # << >> /\ IsWs(s[Len(s)]) THEN RStrip(SubSeq(s, 1, Len(s) - 1)) ELSE s

\* str.strip()
Strip(s) == RStrip(LStrip(s))

Digits == << "0", "1", "2", "3", "4", "5", "6", "7", "8", "9" >>

\* str(n) for 0 <= n <= 9, as text
DigitStr(n) == << Digits[n + 1] >>

-----------------------------------------------------------------------------
(* SerperDevTool *)

Errors == {"HTTPError"}

\* What one requests.post attempt can give: an exception, or a JSON body
\* without "organic", or one with n organic items.
Outcomes ==
    [ok : {FALSE}, organic : {FALSE}, items : {0}, err : Errors]
    \cup [ok : {TRUE}, organic : BOOLEAN, items : 0 .. MaxItems, err : {"-"}]

\* f"{title}\n{snippet}\n{link}" of the k-th organic item
Snippet(k) == << "title", DigitStr(k)[1], "\n", "snippet", DigitStr(k)[1], "\n",
                 "link", DigitStr(k)[1] >>

\* "\n\n".join(snippets) for the first n organic items
RECURSIVE JoinSnippets(_)
JoinSnippets(n) ==
    IF n = 0 THEN << >>
    ELSE IF n = 1 THEN Snippet(1)
    ELSE JoinSnippets(n - 1) \o << "\n", "\n" >> \o Snippet(n)

ResultText(out) == IF out.organic THEN JoinSnippets(out.items) ELSE << >>

\* f"Search failed after {retries} attempts: {e}"
FailureText(r, e) == << "Search failed after " >> \o DigitStr(r)
                     \o << " attempts: ", e >>

EmptyCache == [q \in {} |-> << >>]

\* self.cache[query] = result
CacheStore(c, q, result) ==
    [k \in DOMAIN c \cup {q} |-> IF k = q THEN result ELSE c[k]]

\* The except branch: nothing is cached.
CacheOnFailureBad(c, q, text) ==
    [k \in DOMAIN c \cup {q} |-> IF k = q THEN text ELSE c[k]]
CacheOnFailure(c, q, text) == c

\* if attempt == retries - 1
LastAttempt(a, r) == a = r - 1

\* Lines 33-39: the cache lookup, and range(retries) when it is empty.
SearchEnter ==
    /\ pc = "search"
    /\ IF query \in DOMAIN cache
         THEN /\ ret' = Str(cache[query])
              /\ pc' = "search_ret"
         ELSE IF retries <= 0
         THEN /\ ret' = None
              /\ pc' = "search_ret"
         ELSE /\ ret' = ret
              /\ pc' = "attempt"
    /\ attempt' = 0
    /\ UNCHANGED << sessionVars, buttonShown, inputVars, cache, query, retries,
                    posts, loopVars, modelVars, uiVars, prevSearch, lastGood,
                    icsVars >>

\* Lines 40-56: one iteration of the retry loop.
SearchAttempt ==
    /\ pc = "attempt"
    /\ posts' = posts + 1
    /\ \E out \in Outcomes :
         IF out.ok
           THEN /\ cache' = CacheStore(cache, query, ResultText(out))
                /\ ret' = Str(ResultText(out))
                /\ pc' = "search_ret"
                /\ attempt' = attempt
           ELSE /\ cache' = CacheOnFailure(cache, query,
                                           FailureText(retries, out.err))
                /\ IF LastAttempt(attempt, retries)
                     THEN /\ ret' = Str(FailureText(retries, out.err))
                          /\ pc' = "search_ret"
                          /\ attempt' = attempt
                     ELSE /\ ret' = ret
                          /\ pc' = "attempt"
                          /\ attempt' = attempt + 1
    /\ UNCHANGED << sessionVars, buttonShown, inputVars, query, retries,
                    loopVars, modelVars, uiVars, prevSearch, lastGood, icsVars >>

\* f"Weather, visa rules, top attractions for {destination} in 2026"
EssentialQuery(dest) ==
    << "Weather, visa rules, top attractions for " >> \o dest \o << " in 2026" >>

Destinations == { << >>, << "A" >>, << "B" >> }
Queries == { EssentialQuery(d) : d \in Destinations \ { << >> } }

\* A caller of one SerperDevTool object: search(q, r)
ToolCall ==
    /\ pc = "tool_idle"
    /\ \E q \in Queries, r \in 0 .. MaxRetries :
         /\ query' = q
         /\ retries' = r
    /\ posts' = 0
    /\ attempt' = 0
    /\ ret' = None
    /\ pc' = "search"
    /\ UNCHANGED << sessionVars, buttonShown, inputVars, cache, loopVars,
                    modelVars, uiVars, prevSearch, lastGood, icsVars >>

ToolReturn ==
    /\ pc = "search_ret"
    /\ pc' = "tool_idle"
    /\ UNCHANGED << sessionVars, buttonShown, inputVars, cache, searchVars,
                    loopVars, modelVars, uiVars, prevSearch, lastGood, icsVars >>

-----------------------------------------------------------------------------
(* generate_ics_content *)

\* the character at position p, "" past the end
Ch(t, p) == IF p >= 1 /\ p <= Len(t) THEN t[p] ELSE ""

IsDigit(c) == c \in {"0", "1", "2", "3", "4", "5", "6", "7", "8", "9"}

\* the class of whitespace, the en dash (the token "endash") and the colon
IsSepChar(c) == IsWs(c) \/ c \in {"endash", ":"}

\* \s*, \d+ and the separator class are greedy: the first position at or after p that
\* the class does not match
RECURSIVE SkipWs(_, _)
SkipWs(t, p) == IF IsWs(Ch(t, p)) THEN SkipWs(t, p + 1) ELSE p

RECURSIVE SkipDigits(_, _)
SkipDigits(t, p) == IF IsDigit(Ch(t, p)) THEN SkipDigits(t, p + 1) ELSE p

RECURSIVE SkipSep(_, _)
SkipSep(t, p) == IF IsSepChar(Ch(t, p)) THEN SkipSep(t, p + 1) ELSE p

\* "Day" under re.IGNORECASE
DayAt(t, p) ==
    /\ Ch(t, p) \in {"D", "d"}
    /\ Ch(t, p + 1) \in {"A", "a"}
    /\ Ch(t, p + 2) \in {"Y", "y"}

\* Day\s*\d+ matches at p
DayNumAt(t, p) == DayAt(t, p) /\ IsDigit(Ch(t, SkipWs(t, p + 3)))

\* ##\s*Day\s*\d+ matches at p
PrefixedAt(t, p) ==
    /\ Ch(t, p) = "#"
    /\ Ch(t, p + 1) = "#"
    /\ DayNumAt(t, SkipWs(t, p + 2))

\* (?:##\s*)?Day\s*\d+ matches at p
MatchAt(t, p) == PrefixedAt(t, p) \/ DayNumAt(t, p)

\* $ without re.MULTILINE: the end, or just before a final newline
AtEnd(t, p) == p = Len(t) + 1 \/ (p = Len(t) /\ t[p] = "\n")

\* the leftmost position at or after p where the pattern matches, 0 if none
RECURSIVE NextMatch(_, _)
NextMatch(t, p) ==
    IF p > Len(t) THEN 0
    ELSE IF MatchAt(t, p) THEN p
    ELSE NextMatch(t, p + 1)

\* ([\s\S]*?)(?=...|$): the lazy group stops at the first position the
\* lookahead accepts
RECURSIVE ContentEnd(_, _)
ContentEnd(t, p) ==
    IF MatchAt(t, p) \/ AtEnd(t, p) \/ p > Len(t) THEN p
    ELSE ContentEnd(t, p + 1)

\* day_pattern.findall(plan_text), scanning from position p
RECURSIVE FindAll(_, _)
FindAll(t, p) ==
    LET m == NextMatch(t, p) IN
    IF m = 0 THEN << >>
    ELSE LET day == IF PrefixedAt(t, m) THEN SkipWs(t, m + 2) ELSE m
             d0 == SkipWs(t, day + 3)
             d1 == SkipDigits(t, d0)
             c0 == SkipSep(t, d1)
             e == ContentEnd(t, c0)
         IN << [d_num |-> SubSeq(t, d0, d1 - 1), content |-> SubSeq(t, c0, e - 1)] >>
            \o FindAll(t, e)

DigitVal(c) == CHOOSE n \in 0 .. 9 : Digits[n + 1] = c

\* int(d_num); every value past date.max stands for "too large a day count"
RECURSIVE IntFrom(_, _)
IntFrom(acc, ds) ==
    IF ds = << >> THEN acc
    ELSE IF acc > DateMaxOrdinal THEN IntFrom(acc, Tail(ds))
    ELSE IntFrom(acc * 10 + DigitVal(Head(ds)), Tail(ds))

IntOf(ds) == IntFrom(0, ds)

\* (start_dt + timedelta(days=n)).date() raises OverflowError outside the
\* range of date
DateOk(ordinal) == ordinal >= DateMinOrdinal /\ ordinal <= DateMaxOrdinal

\* Lines 75-76
DtStartBad(start, n) == start + n
DtStart(start, n) == start + n - 1
DtEnd(start, n) == start + n

\* Lines 72-77: the event of one match
EventOf(m, start, dest) ==
    [ d_num |-> m.d_num,
      summary |-> << "Day " >> \o m.d_num \o << " in " >> \o dest,
      description |-> Strip(m.content),
      dtstart |-> DtStart(start, IntOf(m.d_num)),
      dtend |-> DtEnd(start, IntOf(m.d_num)) ]

NoCalendar == [none |-> TRUE, events |-> << >>]

\* Lines 58-82: the events of the calendar returned, or None after the
\* warning when a date computation raised
GenerateIcsContent(text, start, dest) ==
    LET days == FindAll(text, 1) IN
    IF \A k \in 1 .. Len(days) :
           /\ DateOk(DtStart(start, IntOf(days[k].d_num)))
           /\ DateOk(DtEnd(start, IntOf(days[k].d_num)))
      THEN [none |-> FALSE,
            events |-> [k \in 1 .. Len(days) |-> EventOf(days[k], start, dest)]]
      ELSE NoCalendar

Segments ==
    { << "D", "a", "y" >>, << "d", "A", "Y", " " >>, << "1" >>, << "2" >>,
      << "#", "#", " " >>, << ":" >>, << "x", "\n" >>,
      << "9", "9", "9", "9", "9", "9", "9" >> }

RECURSIVE TextsOf(_)
TextsOf(n) ==
    IF n = 0 THEN { << >> }
    ELSE LET prev == TextsOf(n - 1) IN
         prev \cup { p \o s : p \in prev, s \in Segments }

D20260310 == 739685   \* date(2026, 3, 10).toordinal()
D20261231 == 739981   \* date(2026, 12, 31).toordinal()
StartDates == {D20260310, D20261231}

IcsCall ==
    /\ pc = "ics_idle"
    /\ ics' = GenerateIcsContent(plan_text, start_date, destination)
    /\ pc' = "ics_done"
    /\ UNCHANGED << sessionVars, buttonShown, inputVars, cache, searchVars,
                    loopVars, modelVars, uiVars, prevSearch, lastGood,
                    plan_text, start_date >>

-----------------------------------------------------------------------------
(* Initial values *)

Blank ==
    /\ itinerary = None
    /\ full_response = Str(<< >>)
    /\ buttonShown = FALSE
    /\ or_key = << >>
    /\ serp_key = << >>
    /\ destination = << >>
    /\ num_days = MinDays
    /\ clicked = FALSE
    /\ cache = EmptyCache
    /\ query = << >>
    /\ retries = DefaultRetries
    /\ attempt = 0
    /\ ret = None
    /\ posts = 0
    /\ search_results = Str(<< >>)
    /\ i = 0
    /\ start_day = 0
    /\ end_day = 0
    /\ full_itinerary = << >>
    /\ chunk_response = << >>
    /\ open = {}
    /\ recv = << >>
    /\ requests = << >>
    /\ sentTexts = << >>
    /\ msg = "none"
    /\ displayArg = None
    /\ icsArg = None
    /\ prevSearch = None
    /\ lastGood = << >>
    /\ ics = NoCalendar

-----------------------------------------------------------------------------
(* The chunk loop's arithmetic *)

\* range(1, num_days + 1, chunk_size): the start of the chunk of index k
RangeStart(k) == 1 + k * ChunkSize

\* the for loop has a chunk of index k
HasChunk(k, n) == RangeStart(k) < n + 1

\* end_day = min(start_day + chunk_size - 1, num_days)
EndDayBad(s, n) == s + ChunkSize - 1
EndDay(s, n) == IF s + ChunkSize - 1 < n THEN s + ChunkSize - 1 ELSE n

Sep == << "\n", "\n" >>

-----------------------------------------------------------------------------
(* The language model's stream *)

Letters == << "a", "b", "c", "d" >>

\* The k-th thing a stream yields: an event with content, an event whose
\* content is empty, or a plain str.
Frag(kind, k) ==
    [ hasContent |-> kind \in {"content", "empty"},
      content |-> IF kind = "content" THEN << Letters[k] >> ELSE << >>,
      isStr |-> kind = "str",
      str |-> IF kind = "str" THEN << Letters[k] >> ELSE << >> ]

FragKinds == {"content", "empty", "str"}

\* Lines 153-156: what one fragment adds to chunk_response
AccumulateBad(resp, f) ==
    IF f.hasContent /\ f.content # << >> THEN f.content \o resp
    ELSE IF f.isStr THEN f.str \o resp
    ELSE resp
Accumulate(resp, f) ==
    IF f.hasContent /\ f.content # << >> THEN resp \o f.content
    ELSE IF f.isStr THEN resp \o f.str
    ELSE resp

\* Line 157: full_itinerary += chunk_response + "\n\n"
AppendChunkText(full, resp) == full \o resp \o Sep

\* Where the for loop over the stream goes after a fragment: it keeps draining.
AfterFragmentBad == "append"
AfterFragment == "stream"

\* Line 174: what the page shows of the stored itinerary
ShownBad(stored, generated) == Str(generated)
Shown(stored, generated) == IF Truthy(stored) THEN stored ELSE None

\* Lines 159-160 run only after the loop: what a failed run stores
StoredOnFailureBad(stored, partial) == Str(partial)
StoredOnFailure(stored, partial) == stored

-----------------------------------------------------------------------------
(* One script run *)

KeyInputs == { << >>, << " " >>, << "k" >> }
SearchModes == {"Always search first", "Smart search (recommended)"}

\* Lines 84-136: the widgets are read, the tool is built, the button is
\* handled up to the call of serp_tool.search.
ScriptRun(daySet) ==
    /\ pc = "idle"
    /\ \E ok \in KeyInputs, sk \in KeyInputs, dest \in Destinations,
          n \in daySet, click \in BOOLEAN, mode \in SearchModes :
         /\ click => buttonShown
         /\ or_key' = Strip(ok)
         /\ serp_key' = Strip(sk)
         /\ destination' = dest
         /\ num_days' = n
         /\ clicked' = click
         /\ IF Strip(ok) = << >> \/ Strip(sk) = << >>
              THEN /\ buttonShown' = FALSE
                   /\ msg' = "none"
                   /\ pc' = "display"
                   /\ UNCHANGED << cache, query, retries >>
              ELSE /\ cache' = EmptyCache
                   /\ IF ~click
                        THEN /\ buttonShown' = TRUE
                             /\ msg' = "none"
                             /\ pc' = "display"
                             /\ UNCHANGED << query, retries >>
                        ELSE IF dest = << >>
                        THEN /\ buttonShown' = TRUE
                             /\ msg' = "warning"
                             /\ pc' = "display"
                             /\ UNCHANGED << query, retries >>
                        ELSE /\ buttonShown' = FALSE
                             /\ msg' = "none"
                             /\ IF mode \in SearchModes
                                  THEN /\ query' = EssentialQuery(dest)
                                       /\ retries' = DefaultRetries
                                       /\ pc' = "search"
                                  ELSE /\ UNCHANGED << query, retries >>
                                       /\ pc' = "loop"
    /\ attempt' = 0
    /\ ret' = None
    /\ posts' = 0
    /\ search_results' = Str(<< >>)
    /\ i' = 0
    /\ full_itinerary' = << >>
    /\ UNCHANGED << sessionVars, start_day, end_day, chunk_response, modelVars,
                    displayArg, icsArg, prevSearch, lastGood, icsVars >>

\* Line 136: search_results = serp_tool.search(essential_query)
AfterSearch ==
    /\ pc = "search_ret"
    /\ search_results' = ret
    /\ prevSearch' = IF posts = 1 /\ query \in DOMAIN cache
                       THEN [none |-> FALSE, text |-> ret.text, query |-> query]
                       ELSE None
    /\ pc' = "loop"
    /\ UNCHANGED << sessionVars, buttonShown, inputVars, cache, searchVars,
                    i, start_day, end_day, full_itinerary, chunk_response,
                    modelVars, uiVars, lastGood, icsVars >>

\* Lines 141-152: the next chunk's range and prompt; the model is called.
LoopIssue ==
    /\ pc = "loop"
    /\ HasChunk(i, num_days)
    /\ start_day' = RangeStart(i)
    /\ end_day' = EndDay(RangeStart(i), num_days)
    /\ requests' = Append(requests,
           [ start |-> RangeStart(i),
             end |-> EndDay(RangeStart(i), num_days),
             days |-> num_days,
             dest |-> destination,
             essentials |-> i = 0,
             search |-> IF i = 0 THEN search_results ELSE Str(<< >>) ])
    /\ chunk_response' = << >>
    /\ open' = open \cup {i}
    /\ recv' = << >>
    /\ pc' = "stream"
    /\ UNCHANGED << sessionVars, buttonShown, inputVars, cache, searchVars,
                    search_results, i, full_itinerary, sentTexts, uiVars,
                    prevSearch, lastGood, icsVars >>

\* Lines 152-156: the stream yields one fragment.
StreamYield(kinds) ==
    /\ pc = "stream"
    /\ Len(recv) < MaxFrags
    /\ \E kind \in kinds :
         /\ recv' = Append(recv, Frag(kind, Len(recv) + 1))
         /\ chunk_response' = Accumulate(chunk_response, Frag(kind, Len(recv) + 1))
    /\ pc' = AfterFragment
    /\ UNCHANGED << sessionVars, buttonShown, inputVars, cache, searchVars,
                    search_results, i, start_day, end_day, full_itinerary,
                    open, requests, sentTexts, uiVars, prevSearch, lastGood,
                    icsVars >>

\* Line 152: the stream ends.
StreamEnd ==
    /\ pc = "stream"
    /\ open' = open \ {i}
    /\ pc' = "append"
    /\ UNCHANGED << sessionVars, buttonShown, inputVars, cache, searchVars,
                    loopVars, recv, requests, sentTexts, uiVars, prevSearch,
                    lastGood, icsVars >>

\* Line 152: the call of the model, or its stream, raises.
StreamRaise ==
    /\ pc = "stream"
    /\ open' = open \ {i}
    /\ pc' = "except"
    /\ UNCHANGED << sessionVars, buttonShown, inputVars, cache, searchVars,
                    loopVars, recv, requests, sentTexts, uiVars, prevSearch,
                    lastGood, icsVars >>

\* The text of the fragments a stream yielded, in the order they arrived
RECURSIVE FragmentsText(_)
FragmentsText(fs) ==
    IF fs = << >> THEN << >>
    ELSE (IF Head(fs).isStr THEN Head(fs).str ELSE Head(fs).content)
         \o FragmentsText(Tail(fs))

\* Line 157, and the loop's next index
AppendChunk ==
    /\ pc = "append"
    /\ full_itinerary' = AppendChunkText(full_itinerary, chunk_response)
    /\ sentTexts' = Append(sentTexts, FragmentsText(recv))
    /\ i' = i + 1
    /\ pc' = "loop"
    /\ UNCHANGED << sessionVars, buttonShown, inputVars, cache, searchVars,
                    search_results, start_day, end_day, chunk_response, open,
                    recv, requests, uiVars, prevSearch, lastGood, icsVars >>

\* Lines 159-160, after the loop
Store ==
    /\ pc = "loop"
    /\ ~HasChunk(i, num_days)
    /\ itinerary' = Str(full_itinerary)
    /\ full_response' = Str(full_itinerary)
    /\ lastGood' = sentTexts
    /\ pc' = "display"
    /\ UNCHANGED << buttonShown, inputVars, cache, searchVars, loopVars,
                    modelVars, uiVars, prevSearch, icsVars >>

\* Lines 162-163
Except ==
    /\ pc = "except"
    /\ msg' = "error"
    /\ itinerary' = StoredOnFailure(itinerary, full_itinerary)
    /\ pc' = "display"
    /\ UNCHANGED << full_response, buttonShown, inputVars, cache, searchVars,
                    loopVars, modelVars, displayArg, icsArg, prevSearch,
                    lastGood, icsVars >>

\* Lines 174-184: the stored itinerary is shown and handed to the extractor.
Display ==
    /\ pc = "display"
    /\ displayArg' = Shown(itinerary, full_itinerary)
    /\ icsArg' = Shown(itinerary, full_itinerary)
    /\ pc' = "done"
    /\ UNCHANGED << sessionVars, buttonShown, inputVars, cache, searchVars,
                    loopVars, modelVars, msg, prevSearch, lastGood, icsVars >>

\* The script ends: its module-level names are gone, the session state stays.
EndRun ==
    /\ pc = "done"
    /\ or_key' = << >>
    /\ serp_key' = << >>
    /\ destination' = << >>
    /\ num_days' = MinDays
    /\ clicked' = FALSE
    /\ cache' = EmptyCache
    /\ query' = << >>
    /\ retries' = DefaultRetries
    /\ attempt' = 0
    /\ ret' = None
    /\ posts' = 0
    /\ search_results' = Str(<< >>)
    /\ i' = 0
    /\ start_day' = 0
    /\ end_day' = 0
    /\ full_itinerary' = << >>
    /\ chunk_response' = << >>
    /\ open' = {}
    /\ recv' = << >>
    /\ requests' = << >>
    /\ sentTexts' = << >>
    /\ msg' = "none"
    /\ displayArg' = None
    /\ icsArg' = None
    /\ pc' = "idle"
    /\ UNCHANGED << sessionVars, buttonShown, prevSearch, lastGood, icsVars >>

InitTool ==
    /\ Blank
    /\ plan_text = << >>
    /\ start_date = D20260310
    /\ pc = "tool_idle"

NextTool == ToolCall \/ SearchEnter \/ SearchAttempt \/ ToolReturn

SpecTool == InitTool /\ [][NextTool]_vars

Init ==
    /\ Blank
    /\ plan_text = << >>
    /\ start_date = D20260310
    /\ pc = "idle"

Next ==
    \/ ScriptRun({MinDays, MaxDaysModel})
    \/ SearchEnter
    \/ SearchAttempt
    \/ AfterSearch
    \/ LoopIssue
    \/ StreamYield(FragKinds)
    \/ StreamEnd
    \/ StreamRaise
    \/ AppendChunk
    \/ Store
    \/ Except
    \/ Display
    \/ EndRun

Spec == Init /\ [][Next]_vars

\* Every trip length the Days widget allows, with streams that carry no text
NextChunks ==
    \/ ScriptRun(MinDays .. MaxDays)
    \/ SearchEnter
    \/ SearchAttempt
    \/ AfterSearch
    \/ LoopIssue
    \/ StreamYield({"empty"})
    \/ StreamEnd
    \/ StreamRaise
    \/ AppendChunk
    \/ Store
    \/ Except
    \/ Display
    \/ EndRun

SpecChunks == Init /\ [][NextChunks]_vars

InitIcs ==
    /\ itinerary = None
    /\ full_response = Str(<< >>)
    /\ buttonShown = FALSE
    /\ or_key = << >>
    /\ serp_key = << >>
    /\ destination = << "A" >>
    /\ num_days = MinDays
    /\ clicked = FALSE
    /\ cache = EmptyCache
    /\ query = << >>
    /\ retries = DefaultRetries
    /\ attempt = 0
    /\ ret = None
    /\ posts = 0
    /\ search_results = Str(<< >>)
    /\ i = 0
    /\ start_day = 0
    /\ end_day = 0
    /\ full_itinerary = << >>
    /\ chunk_response = << >>
    /\ open = {}
    /\ recv = << >>
    /\ requests = << >>
    /\ sentTexts = << >>
    /\ msg = "none"
    /\ displayArg = None
    /\ icsArg = None
    /\ prevSearch = None
    /\ lastGood = << >>
    /\ ics = NoCalendar
    /\ plan_text \in TextsOf(MaxSegs)
    /\ start_date \in StartDates
    /\ pc = "ics_idle"

NextIcs == IcsCall

SpecIcs == InitIcs /\ [][NextIcs]_vars

-----------------------------------------------------------------------------
(* Properties *)

\* Chunk texts in order, each followed by the blank-line separator
RECURSIVE JoinChunks(_)
JoinChunks(texts) ==
    IF texts = << >> THEN << >>
    ELSE Head(texts) \o Sep \o JoinChunks(Tail(texts))

\* The run's generation went through every chunk and was stored.
GenerationStored == pc \in {"display", "done"} /\ msg = "none" /\ requests # << >>

\* The run's generation was aborted by a failing model call.
GenerationFailed == pc = "done" /\ msg = "error"

\* C1: for every numDays in 1..14 with chunk size 3 the day ranges the loop
\* issues start at day 1, each starts at the previous end + 1, each has
\* between 1 and 3 days and none passes numDays; a completed loop ends at
\* numDays, and numDays = 1 gives the single range (1,1).
C1_DayRanges ==
    /\ \A k \in 1 .. Len(requests) :
         /\ requests[k].start = IF k = 1 THEN 1 ELSE requests[k - 1].end + 1
         /\ requests[k].end - requests[k].start + 1 >= 1
         /\ requests[k].end - requests[k].start + 1 <= ChunkSize
         /\ requests[k].end <= requests[k].days
         /\ requests[k].days = num_days
    /\ GenerationStored =>
         /\ requests[Len(requests)].end = num_days
         /\ (num_days = 1 =>
               /\ Len(requests) = 1
               /\ requests[1].start = 1
               /\ requests[1].end = 1)

C1_Witness ==
    /\ GenerationStored
    /\ num_days = MaxDays
    /\ Len(requests) = 5
    /\ requests[5].start = 13
    /\ requests[5].end = 14

\* C2 (as claimed): after any earlier generate requests, a generate request
\* whose model call fails on some chunk ends with the failure message and with
\* no itinerary displayed.
C2_NoItineraryAfterFailure ==
    GenerationFailed => displayArg = None /\ icsArg = None

\* C2 (amended): such a request ends with the failure message and displays
\* nothing of the failed generation: the page shows exactly the itinerary of
\* the last generation stored before the request, and nothing when there is
\* none.
C2_FailureShowsOnlyStored ==
    GenerationFailed =>
        /\ displayArg = IF lastGood = << >> THEN None
                        ELSE Str(JoinChunks(lastGood))
        /\ icsArg = displayArg

C2_Witness ==
    /\ GenerationFailed
    /\ Len(requests) = 2
    /\ sentTexts # << >>
    /\ sentTexts[1] # << >>
    /\ displayArg # None

\* C3: the stored itinerary and full_response change only in the step after
\* the last chunk of a generation was drained and appended, so a failing
\* generation leaves both as they were; in every state the stored itinerary
\* is None or the concatenation of all chunks of one stored generation.
C3_Stored ==
    /\ \/ itinerary = None /\ lastGood = << >>
       \/ lastGood # << >> /\ itinerary = Str(JoinChunks(lastGood))
    /\ full_response = IF itinerary = None THEN Str(<< >>) ELSE itinerary

C3_Step ==
    (itinerary' # itinerary \/ full_response' # full_response) =>
        /\ pc = "loop"
        /\ open = {}
        /\ Len(sentTexts) = Len(requests)
        /\ requests # << >>
        /\ requests[Len(requests)].end = num_days
        /\ lastGood' = sentTexts

\* C3: partial output is never stored: C3_Stored holds in every state and
\* every step satisfies C3_Step.
C3_NoPartialStored == [](C3_Stored) /\ [][C3_Step]_vars

C3_Witness ==
    /\ GenerationFailed
    /\ Len(requests) = 2
    /\ full_itinerary # << >>
    /\ itinerary # None
    /\ itinerary.text # full_itinerary

\* C4: at most one model request is outstanding; while one is, it is the
\* latest issued and every earlier chunk has been drained and its text
\* appended to the itinerary; requests are issued in increasing range order.
C4_Sequential ==
    /\ Cardinality(open) <= 1
    /\ open \subseteq {Len(requests) - 1}
    /\ Len(sentTexts) >= Len(requests) - 1
    /\ Len(sentTexts) <= Len(requests)
    /\ pc = "stream" =>
         /\ open = {Len(requests) - 1}
         /\ Len(sentTexts) = Len(requests) - 1
         /\ full_itinerary = JoinChunks(sentTexts)
    /\ \A k \in 2 .. Len(requests) : requests[k].start > requests[k - 1].end

C4_Witness ==
    /\ pc = "stream"
    /\ Len(requests) = 2
    /\ recv # << >>
    /\ sentTexts[1] # << >>

\* C5: after a successful generation the stored itinerary is the chunk texts
\* in range order, each followed by the blank-line separator, a chunk text
\* being the text of its fragments in arrival order; that same string is
\* what the page shows and what the calendar extractor is given.
C5_Concatenation ==
    GenerationStored =>
        /\ Len(sentTexts) = Len(requests)
        /\ itinerary = Str(JoinChunks(sentTexts))
        /\ pc = "done" => icsArg = itinerary /\ displayArg = itinerary

C5_Witness ==
    /\ GenerationStored
    /\ pc = "done"
    /\ Len(sentTexts) = 2
    /\ sentTexts[1] = << "a", "b" >>
    /\ sentTexts[2] = << "b" >>
    /\ icsArg = Str(<< "a", "b", "\n", "\n", "b", "\n", "\n" >>)

\* The "Day N" markers of a text, in text order: the digits after each
\* occurrence of Day, optional whitespace and a number
RECURSIVE MarkerSeq(_, _)
MarkerSeq(t, p) ==
    IF p > Len(t) THEN << >>
    ELSE IF DayNumAt(t, p)
         THEN << SubSeq(t, SkipWs(t, p + 3), SkipDigits(t, SkipWs(t, p + 3)) - 1) >>
              \o MarkerSeq(t, p + 1)
         ELSE MarkerSeq(t, p + 1)

\* One event per marker, in text order, N verbatim, start = startDate + N - 1
\* and end = start + 1
EventsFollowMarkers ==
    LET ms == MarkerSeq(plan_text, 1) IN
    /\ ~ics.none
    /\ Len(ics.events) = Len(ms)
    /\ \A k \in 1 .. Len(ms) :
         /\ ics.events[k].d_num = ms[k]
         /\ ics.events[k].dtstart = start_date + IntOf(ms[k]) - 1
         /\ ics.events[k].dtend = ics.events[k].dtstart + 1

\* C6 (as claimed): generate_ics_content gives one event per "Day N" marker,
\* in text order with N verbatim, start = startDate + (N - 1) days and
\* end = start + 1 day, for every text; no marker gives no event, not an error.
C6_EventPerMarker == pc = "ics_done" => EventsFollowMarkers

\* Every marker's start and end date is a date (not past 9999-12-31).
MarkerDatesOk ==
    LET ms == MarkerSeq(plan_text, 1) IN
    \A k \in 1 .. Len(ms) :
        /\ start_date + IntOf(ms[k]) - 1 >= DateMinOrdinal
        /\ start_date + IntOf(ms[k]) <= DateMaxOrdinal

\* C6 (amended): the same, provided every marker's start and end date is a
\* representable date; when some marker's N is too large for that, the whole
\* extraction returns no calendar data instead of events.
C6_EventPerMarkerInRange ==
    pc = "ics_done" =>
        IF MarkerDatesOk THEN EventsFollowMarkers ELSE ics = NoCalendar

C6_Witness ==
    /\ pc = "ics_done"
    /\ start_date = D20260310
    /\ ~ics.none
    /\ Len(ics.events) = 2
    /\ ics.events[1].d_num = << "1" >>
    /\ ics.events[1].dtstart = 739685
    /\ ics.events[1].dtend = 739686
    /\ ics.events[2].d_num = << "2" >>
    /\ ics.events[2].dtstart = 739686
    /\ ics.events[2].dtend = 739687

\* C7: when a generate request searches the query that the session's previous
\* generate request searched with success at its first attempt, no network
\* call is made and the cached text of the first search is returned.
C7_SessionCacheHit ==
    (pc = "search_ret" /\ ~prevSearch.none /\ prevSearch.query = query) =>
        /\ posts = 0
        /\ ret = Str(prevSearch.text)

\* C8: for every retry limit passed to search, when the provider fails on
\* every attempt the search has made exactly that many attempts and returns
\* the failure text holding the retry count, never a value that is no text.
C8_FailureIsText ==
    (pc = "search_ret" /\ query \notin DOMAIN cache) =>
        /\ posts = retries
        /\ ~ret.none
        /\ \E e \in Errors : ret = Str(FailureText(retries, e))

\* C9: a generate request with an empty API key or an empty destination ends
\* with no search request and no model request issued, with a validation
\* message shown, and with no partial work done.
C9_RejectedWithMessage ==
    (pc = "done" /\ clicked
       /\ (or_key = << >> \/ serp_key = << >> \/ destination = << >>)) =>
        /\ posts = 0
        /\ requests = << >>
        /\ full_itinerary = << >>
        /\ msg = "warning"

\* The texts a successful provider call can give
SuccessTexts == { ResultText(out) : out \in { o \in Outcomes : o.ok } }

\* C10: the cache of a SerperDevTool holds only results of successful
\* provider calls
C10_OnlySuccess == \A q \in DOMAIN cache : cache[q] \in SuccessTexts

\* C10: no step evicts or overwrites an entry; an attempt that fails leaves
\* the cache unchanged; a search for a query without an entry goes to the
\* provider; a search for a query with an entry returns that entry's text
\* without a network call.
C10_Step ==
    /\ \A q \in DOMAIN cache : q \in DOMAIN cache' /\ cache'[q] = cache[q]
    /\ (pc = "attempt" /\ ~(pc' = "search_ret" /\ query \in DOMAIN cache'))
         => cache' = cache
    /\ (pc = "search" /\ query \notin DOMAIN cache /\ retries > 0)
         => pc' = "attempt"
    /\ (pc = "search" /\ query \in DOMAIN cache)
         => pc' = "search_ret" /\ ret' = Str(cache[query]) /\ posts' = posts

\* C10: the cache holds only successful results and keeps them: C10_OnlySuccess
\* holds in every state and every step satisfies C10_Step.
C10_CacheKeepsSuccesses == [](C10_OnlySuccess) /\ [][C10_Step]_vars

C10_Witness ==
    /\ pc = "search_ret"
    /\ posts = 0
    /\ query \in DOMAIN cache
    /\ ret = Str(cache[query])
    /\ ret.text # << >>
    /\ Cardinality(DOMAIN cache) = 1

====
